---- MODULE Spec2Model ----
(***************************************************************************)
(* Video frame-pair comparison engine of ssimulacra2_bin (src/video.rs):   *)
(* the coordinating thread (compare_videos, compare_videos_inner), the     *)
(* cursor VideoCompare behind its Mutex, the worker threads running        *)
(* calc_score in a loop, the mpsc result channel and the BTreeMap the      *)
(* coordinating thread collects the scores in.                             *)
(***************************************************************************)
EXTENDS Integers, Sequences, FiniteSets, TLC

(***************************************************************************)
(* Bounds of the model.                                                    *)
(***************************************************************************)
MaxLen == 3
MaxInc == 2
MaxStart == 2
MaxCompare == 2
MaxThreads == 2
MaxFail == 1
MaxRecords == 11

(***************************************************************************)
(* Option<T>: None is the empty sequence, Some(x) the one-element one.     *)
(***************************************************************************)
None == << >>
Some(x) == << x >>
IsSome(o) == o # None
OptSet(S) == {None} \cup {Some(x) : x \in S}
UnwrapOr(o, d) == IF IsSome(o) THEN o[1] ELSE d
Max(a, b) == IF a >= b THEN a ELSE b
Min(a, b) == IF a <= b THEN a ELSE b

Workers == 1..MaxThreads

VARIABLES
  inc,                    \* compare_videos' inc (after the CLI's clamp)
  frame_threads,          \* compare_videos' frame_threads (after the clamp)
  start_frame,            \* Option<usize> argument
  frames_to_compare,      \* Option<usize> argument
  src_len, dst_len,       \* frames each decoder can deliver
  failing,                \* frame pairs (by number) whose metric computation fails
  source_info,            \* source.get_video_details(): width and height
  distorted_info,         \* distorted.get_video_details(): width and height
  input,                  \* a token of the command line, as its characters
  main,                   \* position of the coordinating thread
  error,                  \* the panic that ended the coordinating thread
  source_frame_count,     \* Option<usize>
  distorted_frame_count,  \* Option<usize>
  warned,                 \* the frame count mismatch warning was printed
  end_frame,              \* Option<usize>
  current_frame,          \* VideoCompare.current_frame
  next_frame,             \* VideoCompare.next_frame
  src_pos, dst_pos,       \* frames each decoder has delivered
  lock,                   \* holder of the Mutex, 0 when free
  spawned,                \* worker threads spawned so far
  result_tx,              \* the coordinating thread still holds its Sender
  pc,                     \* position of each worker thread
  curr_frame,             \* calc_score's local curr_frame, per worker (0 out of scope)
  next_local,             \* calc_score's local next_frame, per worker (0 out of scope)
  held,                   \* the frame pair a worker took out of the lock
  chan,                   \* records in the mpsc channel, oldest first
  results,                \* the BTreeMap frame index -> score
  scores,                 \* Some(the Vec of scores) once the summary is printed
  progress_len,           \* Some(the length the progress bar was created with)
  chart,                  \* Some(the points of the chart's series) once drawn
  src_matrix, src_transfer, src_primaries,   \* the source's colorimetry
  dst_matrix, dst_transfer, dst_primaries,   \* the distorted stream's colorimetry
  parsed,                 \* the outcome of parsing input
  clip,                   \* vapoursynth.rs: the script's output node
  cur_frame,              \* vapoursynth.rs: VapoursynthDecoder.cur_frame
  read_result,            \* vapoursynth.rs: what the last read_video_frame returned
  reads_ok,               \* history: the number of reads that returned Ok
  avg,                    \* the running average shown with the progress bar
  acquired,               \* history: indices the cursor returned, in lock order
  failed,                 \* history: indices whose scoring panicked
  sent,                   \* history: records sent on the channel, in send order
  received                \* history: records taken from the channel

argvars == << inc, frame_threads, start_frame, frames_to_compare, src_len,
              dst_len, failing, source_info, distorted_info, input >>
mainvars == << main, error, source_frame_count, distorted_frame_count, warned,
               end_frame, spawned, result_tx, scores, progress_len, chart >>
colorvars == << src_matrix, src_transfer, src_primaries,
                dst_matrix, dst_transfer, dst_primaries >>
cursorvars == << current_frame, next_frame, src_pos, dst_pos, lock >>
workervars == << pc, curr_frame, next_local, held >>
aggvars == << chan, results, received, avg >>
histvars == << acquired, failed, sent >>
vsvars == << clip, cur_frame, read_result, reads_ok >>
vars == << argvars, mainvars, colorvars, parsed, cursorvars, workervars,
          aggvars, histvars, vsvars >>

(***************************************************************************)
(* main.rs: the CLI's clamps of --frame-threads and --increment.           *)
(***************************************************************************)
UnclampedInc(opt) == UnwrapOr(opt, 1)

UnclampedThreads(opt) == UnwrapOr(opt, 1)

ClampThreads(opt) == Max(UnwrapOr(opt, 1), 1)
ClampInc(opt) == Max(UnwrapOr(opt, 1), 1)

(***************************************************************************)
(* The external metric: a deterministic function of the two frames, here   *)
(* of their positions in their streams; it fails on the frames of failing. *)
(***************************************************************************)
compute_frame_ssimulacra2(s, d) == ((7 * s + 3 * d + 5) % 11) * 9
MetricNeverFails(s, d) == FALSE

MetricFails(s, d) == s \in failing

IsPiped(path) == path \in {"-", "/dev/stdin"}
Paths == {"-", "/dev/stdin", "a.mkv"}

(* vapoursynth.rs, VapoursynthDecoder::new: cur_frame: 0 (line 29).  The    *)
(* runs of compare_videos do not use this decoder; there the script has    *)
(* no clip.                                                                *)
VariableFormat == [property |-> "Variable", sample_type |-> "Integer",
                   bytes_per_sample |-> 1]
NoClip == [format |-> VariableFormat, resolution |-> "Variable", num_frames |-> 0]

New(node) ==
  /\ clip = node
  /\ cur_frame = 0
  /\ read_result = None
  /\ reads_ok = 0

Init ==
  /\ New(NoClip)
  /\ \E increment \in OptSet(0..MaxInc) : inc = ClampInc(increment)
  /\ \E ft \in OptSet(0..MaxThreads) : frame_threads = ClampThreads(ft)
  /\ start_frame \in OptSet(0..MaxStart)
  /\ frames_to_compare \in OptSet(0..MaxCompare)
  /\ src_len \in 0..MaxLen
  /\ dst_len \in 0..MaxLen
  /\ failing \in {S \in SUBSET (0..(Min(src_len, dst_len) - 1)) : Cardinality(S) <= MaxFail}
  /\ source_info = [width |-> 1280, height |-> 720]
  /\ distorted_info = [width |-> 1280, height |-> 720]
  /\ src_matrix = "Unspecified"
  /\ src_transfer = "Unspecified"
  /\ src_primaries = "Unspecified"
  /\ dst_matrix = "Unspecified"
  /\ dst_transfer = "Unspecified"
  /\ dst_primaries = "Unspecified"
  /\ input = None
  /\ parsed = None
  /\ progress_len = None
  /\ chart = None
  /\ avg = << 0, 1 >>
  /\ main = "start"
  /\ error = "none"
  /\ source_frame_count = None
  /\ distorted_frame_count = None
  /\ warned = FALSE
  /\ end_frame = None
  /\ current_frame = 0
  /\ next_frame = 0
  /\ src_pos = 0
  /\ dst_pos = 0
  /\ lock = 0
  /\ spawned = 0
  /\ result_tx = FALSE
  /\ pc = [w \in Workers |-> "unspawned"]
  /\ curr_frame = [w \in Workers |-> 0]
  /\ next_local = [w \in Workers |-> 0]
  /\ held = [w \in Workers |-> None]
  /\ chan = << >>
  /\ results = << >>
  /\ scores = None
  /\ acquired = << >>
  /\ failed = {}
  /\ sent = << >>
  /\ received = 0

(***************************************************************************)
(* compare_videos: the piped-input assertion, then the decoders are        *)
(* opened and asked for their frame counts (get_frame_count().ok()); a     *)
(* piped input has none.                                                   *)
(***************************************************************************)
FrameCountOf(path, len, ok) == IF IsPiped(path) \/ ~ok THEN None ELSE Some(len)

CompareVideos(source, distorted) ==
  /\ main = "start"
  /\ IF IsPiped(source) /\ IsPiped(distorted)
     THEN /\ main' = "panicked"
          /\ error' = "both_piped"
          /\ UNCHANGED << source_frame_count, distorted_frame_count >>
     ELSE /\ main' = "inner"
          /\ \E sok \in BOOLEAN, dok \in BOOLEAN :
               /\ source_frame_count' = FrameCountOf(source, src_len, sok)
               /\ distorted_frame_count' = FrameCountOf(distorted, dst_len, dok)
          /\ UNCHANGED error
  /\ UNCHANGED << argvars, vsvars, colorvars, parsed, warned, end_frame, spawned,
                  result_tx, scores, progress_len, chart, cursorvars,
                  workervars, aggvars, histvars >>

(***************************************************************************)
(* compare_videos_inner up to the construction of the cursor: the warning, *)
(* the --start-frame assertion, the channel, end_frame and VideoCompare.   *)
(***************************************************************************)
FrameCountMismatch ==
  /\ IsSome(source_frame_count)
  /\ IsSome(distorted_frame_count)
  /\ source_frame_count[1] # distorted_frame_count[1]

NoStartFrameAssertion == TRUE

StartFrameAssertion ==
  IsSome(start_frame) =>
    (IsSome(source_frame_count) \/ IsSome(distorted_frame_count))

StartFrame == UnwrapOr(start_frame, 0)

EndFrame ==
  IF IsSome(frames_to_compare)
  THEN Some(StartFrame + frames_to_compare[1] * inc)
  ELSE None

(* The colorimetry the user left Unspecified is filled in, each stream from  *)
(* its own resolution (lines 357-377).                                      *)
guess_matrix_coefficients_576(width, height) ==
  IF width >= 1280 \/ height >= 576 THEN "BT709"
  ELSE IF height = 576 THEN "BT470BG"
  ELSE "ST170M"

guess_matrix_coefficients(width, height) ==
  IF width >= 1280 \/ height > 576 THEN "BT709"
  ELSE IF height = 576 THEN "BT470BG"
  ELSE "ST170M"

guess_color_primaries_no_2020(matrix, width, height) ==
  IF matrix = "BT709" \/ width >= 1280 \/ height > 576 THEN "BT709"
  ELSE IF height = 576 THEN "BT470BG"
  ELSE IF height = 480 \/ height = 488 THEN "ST170M"
  ELSE "BT709"

guess_color_primaries(matrix, width, height) ==
  IF matrix = "BT2020NonConstantLuminance" \/ matrix = "BT2020ConstantLuminance"
  THEN "BT2020"
  ELSE IF matrix = "BT709" \/ width >= 1280 \/ height > 576 THEN "BT709"
  ELSE IF height = 576 THEN "BT470BG"
  ELSE IF height = 480 \/ height = 488 THEN "ST170M"
  ELSE "BT709"

ResolveMatrix(matrix, info) ==
  IF matrix = "Unspecified"
  THEN guess_matrix_coefficients(info.width, info.height)
  ELSE matrix

ResolveTransfer(transfer) ==
  IF transfer = "Unspecified" THEN "BT1886" ELSE transfer

ResolvePrimaries(primaries, matrix, info) ==
  IF primaries = "Unspecified"
  THEN guess_color_primaries(matrix, info.width, info.height)
  ELSE primaries

ResolveDistortedFromSource ==
  /\ src_matrix' = ResolveMatrix(src_matrix, source_info)
  /\ dst_matrix' = ResolveMatrix(dst_matrix, source_info)
  /\ src_transfer' = ResolveTransfer(src_transfer)
  /\ dst_transfer' = ResolveTransfer(dst_transfer)
  /\ src_primaries' = ResolvePrimaries(src_primaries, src_matrix', source_info)
  /\ dst_primaries' = ResolvePrimaries(dst_primaries, dst_matrix', source_info)

ResolveColorimetry ==
  /\ src_matrix' = ResolveMatrix(src_matrix, source_info)
  /\ dst_matrix' = ResolveMatrix(dst_matrix, distorted_info)
  /\ src_transfer' = ResolveTransfer(src_transfer)
  /\ dst_transfer' = ResolveTransfer(dst_transfer)
  /\ src_primaries' = ResolvePrimaries(src_primaries, src_matrix', source_info)
  /\ dst_primaries' = ResolvePrimaries(dst_primaries, dst_matrix', distorted_info)

Inner ==
  /\ main = "inner"
  /\ warned' = FrameCountMismatch
  /\ IF StartFrameAssertion
     THEN /\ main' = "spawn"
          /\ ResolveColorimetry
          /\ result_tx' = TRUE
          /\ current_frame' = 0
          /\ next_frame' = StartFrame
          /\ end_frame' = EndFrame
          /\ UNCHANGED error
     ELSE /\ main' = "panicked"
          /\ error' = "no_frame_count"
          /\ UNCHANGED << colorvars, result_tx, current_frame, next_frame,
                          end_frame >>
  /\ UNCHANGED << argvars, vsvars, parsed, source_frame_count, distorted_frame_count,
                  spawned, scores, progress_len, chart, src_pos, dst_pos,
                  lock, workervars, aggvars, histvars >>

(***************************************************************************)
(* The spawn loop: one worker thread per iteration, each with a clone of   *)
(* the Sender; then the coordinating thread drops its own Sender.          *)
(***************************************************************************)
Spawn ==
  /\ main = "spawn"
  /\ spawned < frame_threads
  /\ spawned' = spawned + 1
  /\ pc' = [pc EXCEPT ![spawned + 1] = "idle"]
  /\ UNCHANGED << argvars, vsvars, colorvars, parsed, main, error, source_frame_count,
                  distorted_frame_count, warned, end_frame, result_tx, scores,
                  progress_len, chart,
                  cursorvars, curr_frame, next_local, held, aggvars,
                  histvars >>

DropTx ==
  /\ main = "spawn"
  /\ spawned >= frame_threads
  /\ result_tx' = FALSE
  /\ main' = "progress"
  /\ UNCHANGED << argvars, vsvars, colorvars, parsed, error, source_frame_count,
                  distorted_frame_count, warned, end_frame, spawned, scores,
                  progress_len, chart, cursorvars, workervars, aggvars,
                  histvars >>

(***************************************************************************)
(* The progress bar's set-up.  frame_count - start_frame is the argument   *)
(* of unwrap_or, so it is evaluated whenever a frame count is known; on    *)
(* usize it overflows when start_frame > frame_count, which panics in a    *)
(* build with overflow checks and wraps in one without.                    *)
(***************************************************************************)
FrameCount ==
  IF IsSome(source_frame_count) THEN source_frame_count
  ELSE distorted_frame_count

ProgressOverflows(show) ==
  /\ show
  /\ IsSome(FrameCount)
  /\ StartFrame > FrameCount[1]

(* (frame_count as f64 / inc as f64).ceil() as usize: exact on the frame     *)
(* counts of the model.                                                      *)
CeilDiv(a, b) == (a + b - 1) \div b

(* frame_count - start_frame in a build without overflow checks, then       *)
(* .min(bound): the wrapped difference is 2^64 - (start_frame - frame_count) *)
(* and above every bound.                                                    *)
WrappingSubMin(a, b, bound) == IF a >= b THEN Min(a - b, bound) ELSE bound

ProgressLen ==
  IF IsSome(frames_to_compare)
  THEN Min(frames_to_compare[1], CeilDiv(FrameCount[1], inc))
  ELSE WrappingSubMin(FrameCount[1], StartFrame, CeilDiv(FrameCount[1], inc))

Progress(show, overflow_checks) ==
  /\ main = "progress"
  /\ IF ProgressOverflows(show) /\ overflow_checks
     THEN /\ main' = "panicked"
          /\ error' = "overflow"
          /\ UNCHANGED progress_len
     ELSE /\ main' = "recv"
          /\ progress_len' = IF show /\ IsSome(FrameCount)
                             THEN Some(ProgressLen) ELSE None
          /\ UNCHANGED error
  /\ UNCHANGED << argvars, vsvars, colorvars, parsed, source_frame_count,
                  distorted_frame_count, warned, end_frame, spawned, result_tx,
                  scores, chart, cursorvars, workervars, aggvars, histvars >>

(***************************************************************************)
(* The receive loop: for score in result_rx.  It ends when the channel is  *)
(* empty and every Sender is dropped.                                      *)
(***************************************************************************)
InsertAtLen(map, k, v) ==
  [x \in (DOMAIN map) \cup {Cardinality(DOMAIN map)} |->
     IF x = Cardinality(DOMAIN map) THEN v ELSE map[x]]

Insert(map, k, v) ==
  [x \in (DOMAIN map) \cup {k} |-> IF x = k THEN v ELSE map[x]]

RECURSIVE IntoValues(_)
IntoValues(map) ==
  IF DOMAIN map = {} THEN << >>
  ELSE LET k == CHOOSE x \in DOMAIN map : \A y \in DOMAIN map : x <= y
       IN << map[k] >> \o IntoValues([x \in (DOMAIN map) \ {k} |-> map[x]])

SendersAlive ==
  (IF result_tx THEN 1 ELSE 0)
    + Cardinality({w \in Workers : pc[w] \in {"idle", "skip", "read", "scoring"}})

(* The running average is an f64; the model keeps it as the exact fraction  *)
(* << numerator, denominator >> in lowest terms.                            *)
RECURSIVE Gcd(_, _)
Gcd(a, b) == IF b = 0 THEN a ELSE Gcd(b, a % b)
Abs(a) == IF a < 0 THEN 0 - a ELSE a
Rat(n, d) ==
  LET g == Gcd(Abs(n), Abs(d))
  IN  IF d < 0 THEN << (0 - n) \div g, (0 - d) \div g >>
      ELSE << n \div g, d \div g >>
RatAdd(p, q) == Rat(p[1] * q[2] + q[1] * p[2], p[2] * q[2])
RatSub(p, q) == Rat(p[1] * q[2] - q[1] * p[2], p[2] * q[2])
RatDiv(p, k) == Rat(p[1], p[2] * k)

AvgWindow == 10

DivisorWindowOnly(len) == AvgWindow

Divisor(len) == Min(len, AvgWindow)

(* progress.inc(1) moves the bar's position by one for each record: the     *)
(* position is the number of records received.                              *)
Recv ==
  /\ main = "recv"
  /\ chan # << >>
  /\ results' = Insert(results, Head(chan)[1], Head(chan)[2])
  /\ avg' = RatAdd(avg, RatDiv(RatSub(Rat(Head(chan)[2], 1), avg),
                               Divisor(Cardinality(DOMAIN results'))))
  /\ received' = received + 1
  /\ chan' = Tail(chan)
  /\ UNCHANGED << argvars, vsvars, colorvars, parsed, mainvars, cursorvars, workervars, histvars >>

(* The chart's series: results.into_iter().enumerate().map(|(i, v)| (i, v as *)
(* f32)); the scores of the model are small integers, which f32 holds       *)
(* exactly.                                                                  *)
Enumerate(vec) == [i \in 1..Len(vec) |-> << i - 1, vec[i] >>]

Finish(graph) ==
  /\ main = "recv"
  /\ chan = << >>
  /\ SendersAlive = 0
  /\ main' = "done"
  /\ scores' = Some(IntoValues(results))
  /\ chart' = IF graph THEN Some(Enumerate(IntoValues(results))) ELSE None
  /\ UNCHANGED << argvars, vsvars, colorvars, parsed, error, source_frame_count,
                  distorted_frame_count, warned, end_frame, spawned, result_tx,
                  progress_len, cursorvars, workervars, aggvars, histvars >>

(***************************************************************************)
(* A decoder's read_video_frame: the next frame's number, or None once the *)
(* stream is exhausted.                                                    *)
(***************************************************************************)
AdvanceRewinding(pos, len) == IF pos < len THEN pos + 1 ELSE 0

ReadFrame(pos, len) == IF pos < len THEN Some(pos) ELSE None
Advance(pos, len) == IF pos < len THEN pos + 1 ELSE pos

(***************************************************************************)
(* A worker thread: the loop around calc_score.  The process ends with     *)
(* the coordinating thread, so a worker runs only while that one has not   *)
(* panicked.                                                               *)
(***************************************************************************)
Running == main # "panicked"

LockNeverTaken == TRUE

LockFree == lock = 0

LockNoSkip(w) ==
  /\ Running
  /\ pc[w] = "idle"
  /\ LockFree
  /\ lock' = w
  /\ curr_frame' = [curr_frame EXCEPT ![w] = current_frame]
  /\ next_local' = [next_local EXCEPT ![w] = next_frame]
  /\ pc' = [pc EXCEPT ![w] = "read"]
  /\ UNCHANGED << argvars, vsvars, colorvars, parsed, mainvars, current_frame, next_frame, src_pos,
                  dst_pos, held, aggvars, histvars >>

Lock(w) ==
  /\ Running
  /\ pc[w] = "idle"
  /\ LockFree
  /\ lock' = w
  /\ curr_frame' = [curr_frame EXCEPT ![w] = current_frame]
  /\ next_local' = [next_local EXCEPT ![w] = next_frame]
  /\ pc' = [pc EXCEPT ![w] = IF current_frame < next_frame THEN "skip" ELSE "read"]
  /\ UNCHANGED << argvars, vsvars, colorvars, parsed, mainvars, current_frame, next_frame, src_pos,
                  dst_pos, held, aggvars, histvars >>

SkipSourceOnly(w) ==
  /\ Running
  /\ pc[w] = "skip"
  /\ src_pos' = Advance(src_pos, src_len)
  /\ dst_pos' = dst_pos
  /\ IF ReadFrame(src_pos, src_len) = None \/ ReadFrame(dst_pos, dst_len) = None
     THEN /\ pc' = [pc EXCEPT ![w] = "read"]
          /\ UNCHANGED curr_frame
     ELSE /\ curr_frame' = [curr_frame EXCEPT ![w] = @ + 1]
          /\ pc' = [pc EXCEPT ![w] =
                      IF curr_frame[w] + 1 < next_local[w] THEN "skip" ELSE "read"]
  /\ UNCHANGED << argvars, vsvars, colorvars, parsed, mainvars, current_frame, next_frame, lock,
                  next_local, held, aggvars, histvars >>

SkipStep(w) ==
  /\ Running
  /\ pc[w] = "skip"
  /\ src_pos' = Advance(src_pos, src_len)
  /\ dst_pos' = Advance(dst_pos, dst_len)
  /\ IF ReadFrame(src_pos, src_len) = None \/ ReadFrame(dst_pos, dst_len) = None
     THEN /\ pc' = [pc EXCEPT ![w] = "read"]
          /\ UNCHANGED curr_frame
     ELSE /\ curr_frame' = [curr_frame EXCEPT ![w] = @ + 1]
          /\ pc' = [pc EXCEPT ![w] =
                      IF curr_frame[w] + 1 < next_local[w] THEN "skip" ELSE "read"]
  /\ UNCHANGED << argvars, vsvars, colorvars, parsed, mainvars, current_frame, next_frame, lock,
                  next_local, held, aggvars, histvars >>

PastEndOffByOne(next) == IsSome(end_frame) /\ next >= end_frame[1]

PastEnd(next) == IsSome(end_frame) /\ next > end_frame[1]

NextTargetNoInc(w) == curr_frame[w] + 1

NextTarget(w) == curr_frame[w] + inc

AcquireKeepingLock(w) ==
  /\ Running
  /\ pc[w] = "read"
  /\ lock' = IF PastEnd(NextTarget(w)) THEN 0 ELSE w
  /\ curr_frame' = [curr_frame EXCEPT ![w] = 0]
  /\ next_local' = [next_local EXCEPT ![w] = 0]
  /\ IF PastEnd(NextTarget(w))
     THEN /\ pc' = [pc EXCEPT ![w] = "exited"]
          /\ UNCHANGED << current_frame, next_frame, src_pos, dst_pos, held,
                          acquired >>
     ELSE /\ src_pos' = Advance(src_pos, src_len)
          /\ dst_pos' = Advance(dst_pos, dst_len)
          /\ current_frame' = curr_frame[w] + 1
          /\ next_frame' = NextTarget(w)
          /\ IF IsSome(ReadFrame(src_pos, src_len)) /\ IsSome(ReadFrame(dst_pos, dst_len))
             THEN /\ held' = [held EXCEPT ![w] =
                                Some(<< curr_frame[w], src_pos, dst_pos >>)]
                  /\ acquired' = Append(acquired, curr_frame[w])
                  /\ pc' = [pc EXCEPT ![w] = "scoring"]
             ELSE /\ pc' = [pc EXCEPT ![w] = "exited"]
                  /\ UNCHANGED << held, acquired >>
  /\ UNCHANGED << argvars, vsvars, colorvars, parsed, mainvars, aggvars, failed, sent >>

AcquireEitherFrame(w) ==
  /\ Running
  /\ pc[w] = "read"
  /\ lock' = 0
  /\ curr_frame' = [curr_frame EXCEPT ![w] = 0]
  /\ next_local' = [next_local EXCEPT ![w] = 0]
  /\ IF PastEnd(NextTarget(w))
     THEN /\ pc' = [pc EXCEPT ![w] = "exited"]
          /\ UNCHANGED << current_frame, next_frame, src_pos, dst_pos, held,
                          acquired >>
     ELSE /\ src_pos' = Advance(src_pos, src_len)
          /\ dst_pos' = Advance(dst_pos, dst_len)
          /\ current_frame' = curr_frame[w] + 1
          /\ next_frame' = NextTarget(w)
          /\ IF IsSome(ReadFrame(src_pos, src_len)) \/ IsSome(ReadFrame(dst_pos, dst_len))
             THEN /\ held' = [held EXCEPT ![w] =
                                Some(<< curr_frame[w], src_pos, dst_pos >>)]
                  /\ acquired' = Append(acquired, curr_frame[w])
                  /\ pc' = [pc EXCEPT ![w] = "scoring"]
             ELSE /\ pc' = [pc EXCEPT ![w] = "exited"]
                  /\ UNCHANGED << held, acquired >>
  /\ UNCHANGED << argvars, vsvars, colorvars, parsed, mainvars, aggvars, failed, sent >>

Acquire(w) ==
  /\ Running
  /\ pc[w] = "read"
  /\ lock' = 0
  /\ curr_frame' = [curr_frame EXCEPT ![w] = 0]
  /\ next_local' = [next_local EXCEPT ![w] = 0]
  /\ IF PastEnd(NextTarget(w))
     THEN /\ pc' = [pc EXCEPT ![w] = "exited"]
          /\ UNCHANGED << current_frame, next_frame, src_pos, dst_pos, held,
                          acquired >>
     ELSE /\ src_pos' = Advance(src_pos, src_len)
          /\ dst_pos' = Advance(dst_pos, dst_len)
          /\ current_frame' = curr_frame[w] + 1
          /\ next_frame' = NextTarget(w)
          /\ IF IsSome(ReadFrame(src_pos, src_len)) /\ IsSome(ReadFrame(dst_pos, dst_len))
             THEN /\ held' = [held EXCEPT ![w] =
                                Some(<< curr_frame[w], src_pos, dst_pos >>)]
                  /\ acquired' = Append(acquired, curr_frame[w])
                  /\ pc' = [pc EXCEPT ![w] = "scoring"]
             ELSE /\ pc' = [pc EXCEPT ![w] = "exited"]
                  /\ UNCHANGED << held, acquired >>
  /\ UNCHANGED << argvars, vsvars, colorvars, parsed, mainvars, aggvars, failed, sent >>

Score(w) ==
  /\ Running
  /\ pc[w] = "scoring"
  /\ held' = [held EXCEPT ![w] = None]
  /\ IF MetricFails(held[w][1][2], held[w][1][3])
     THEN /\ pc' = [pc EXCEPT ![w] = "panicked"]
          /\ failed' = failed \cup {held[w][1][1]}
          /\ UNCHANGED << chan, sent >>
     ELSE /\ pc' = [pc EXCEPT ![w] = "idle"]
          /\ chan' = Append(chan, << held[w][1][1],
                       compute_frame_ssimulacra2(held[w][1][2], held[w][1][3]) >>)
          /\ sent' = Append(sent, held[w][1][1])
          /\ UNCHANGED failed
  /\ UNCHANGED << argvars, vsvars, colorvars, parsed, mainvars, cursorvars, curr_frame,
                  next_local, results, received, avg, acquired >>

Next ==
  \/ \E source \in Paths, distorted \in Paths : CompareVideos(source, distorted)
  \/ Inner
  \/ Spawn
  \/ DropTx
  \/ \E show \in BOOLEAN, overflow_checks \in BOOLEAN : Progress(show, overflow_checks)
  \/ Recv
  \/ \E graph \in BOOLEAN : Finish(graph)
  \/ \E w \in Workers : Lock(w)
  \/ \E w \in Workers : SkipStep(w)
  \/ \E w \in Workers : Acquire(w)
  \/ \E w \in Workers : Score(w)

Spec == Init /\ [][Next]_vars

(***************************************************************************)
(* The operating system schedules every thread that can take a step: the   *)
(* coordinating thread and each worker.  A worker waiting for the Mutex    *)
(* is not promised it under contention.                                    *)
(***************************************************************************)
MainStep ==
  \/ \E source \in Paths, distorted \in Paths : CompareVideos(source, distorted)
  \/ Inner
  \/ Spawn
  \/ DropTx
  \/ \E show \in BOOLEAN, overflow_checks \in BOOLEAN : Progress(show, overflow_checks)
  \/ Recv
  \/ \E graph \in BOOLEAN : Finish(graph)

WorkerStep(w) == SkipStep(w) \/ Acquire(w) \/ Score(w)

FairSpec ==
  /\ Spec
  /\ WF_vars(MainStep)
  /\ \A w \in Workers : WF_vars(WorkerStep(w))
  /\ WF_vars(\E w \in Workers : Lock(w))

(***************************************************************************)
(* The colorimetry of a run: compare_videos and compare_videos_inner up to  *)
(* the worker pool, for every colorimetry the user can give the two streams *)
(* and resolutions on both sides of the heuristics' thresholds.             *)
(***************************************************************************)
Widths == {1279, 1280}
Heights == {480, 488, 575, 576, 577}
Matrices == {"Unspecified", "BT709", "YCgCo", "BT2020NonConstantLuminance",
             "BT2020ConstantLuminance"}
Transfers == {"Unspecified", "SRGB"}
Primaries == {"Unspecified", "P3DCI"}
VideoDetails == [width : Widths, height : Heights]

ColorInit ==
  /\ New(NoClip)
  /\ inc = 1
  /\ frame_threads = 1
  /\ start_frame = None
  /\ frames_to_compare = None
  /\ src_len = 1
  /\ dst_len = 1
  /\ failing = {}
  /\ source_info \in VideoDetails
  /\ distorted_info \in VideoDetails
  /\ src_matrix \in Matrices
  /\ src_transfer \in Transfers
  /\ src_primaries \in Primaries
  /\ dst_matrix \in Matrices
  /\ dst_transfer \in Transfers
  /\ dst_primaries \in Primaries
  /\ input = None
  /\ parsed = None
  /\ progress_len = None
  /\ chart = None
  /\ avg = << 0, 1 >>
  /\ main = "start"
  /\ error = "none"
  /\ source_frame_count = None
  /\ distorted_frame_count = None
  /\ warned = FALSE
  /\ end_frame = None
  /\ current_frame = 0
  /\ next_frame = 0
  /\ src_pos = 0
  /\ dst_pos = 0
  /\ lock = 0
  /\ spawned = 0
  /\ result_tx = FALSE
  /\ pc = [w \in Workers |-> "unspawned"]
  /\ curr_frame = [w \in Workers |-> 0]
  /\ next_local = [w \in Workers |-> 0]
  /\ held = [w \in Workers |-> None]
  /\ chan = << >>
  /\ results = << >>
  /\ scores = None
  /\ acquired = << >>
  /\ failed = {}
  /\ sent = << >>
  /\ received = 0

ColorNext ==
  \/ \E source \in Paths, distorted \in Paths : CompareVideos(source, distorted)
  \/ Inner

ColorSpec == ColorInit /\ [][ColorNext]_vars

(***************************************************************************)
(* main.rs and parse_matrix, parse_transfer, parse_primaries: the tokens of *)
(* --src-matrix and the like.  A token is the sequence of its characters.   *)
(* The enums are those of av-data (re-exported by ssimulacra2) with the     *)
(* code points of ITU-T H.273, Reserved and Reserved0 being variants.       *)
(***************************************************************************)
Ok(value) == [ok |-> TRUE, value |-> value]
Panic(message) == [ok |-> FALSE, value |-> message]

DigitValue ==
  ("0" :> 0) @@ ("1" :> 1) @@ ("2" :> 2) @@ ("3" :> 3) @@ ("4" :> 4) @@
  ("5" :> 5) @@ ("6" :> 6) @@ ("7" :> 7) @@ ("8" :> 8) @@ ("9" :> 9)

U8Max == 255

(* str::parse::<u8>: an optional "+", then one or more decimal digits, the   *)
(* value not above u8::MAX.                                                  *)
RECURSIVE Decimal(_, _)
Decimal(digits, acc) ==
  IF digits = << >> THEN Some(acc)
  ELSE IF acc * 10 + DigitValue[Head(digits)] > U8Max THEN None
  ELSE Decimal(Tail(digits), acc * 10 + DigitValue[Head(digits)])

ParseU8(token) ==
  LET digits == IF token # << >> /\ Head(token) = "+" THEN Tail(token) ELSE token
  IN  IF digits = << >> \/ \E i \in DOMAIN digits : digits[i] \notin DOMAIN DigitValue
      THEN None
      ELSE Decimal(digits, 0)

UpperToLower ==
  ("A" :> "a") @@ ("B" :> "b") @@ ("C" :> "c") @@ ("D" :> "d") @@ ("E" :> "e") @@
  ("F" :> "f") @@ ("G" :> "g") @@ ("H" :> "h") @@ ("I" :> "i") @@ ("J" :> "j") @@
  ("K" :> "k") @@ ("L" :> "l") @@ ("M" :> "m") @@ ("N" :> "n") @@ ("O" :> "o") @@
  ("P" :> "p") @@ ("Q" :> "q") @@ ("R" :> "r") @@ ("S" :> "s") @@ ("T" :> "t") @@
  ("U" :> "u") @@ ("V" :> "v") @@ ("W" :> "w") @@ ("X" :> "x") @@ ("Y" :> "y") @@
  ("Z" :> "z")

ToAsciiLowercase(token) ==
  [i \in DOMAIN token |->
     IF token[i] \in DOMAIN UpperToLower THEN UpperToLower[token[i]] ELSE token[i]]

(* The enums' discriminants, and from_u8: the variant of a code, if any.    *)
MatrixCoefficients ==
  [c \in 0..14 |->
     << "Identity", "BT709", "Unspecified", "Reserved", "BT470M", "BT470BG",
        "ST170M", "ST240M", "YCgCo", "BT2020NonConstantLuminance",
        "BT2020ConstantLuminance", "ST2085",
        "ChromaticityDerivedNonConstantLuminance",
        "ChromaticityDerivedConstantLuminance", "ICtCp" >>[c + 1]]

TransferCharacteristic ==
  [c \in 0..18 |->
     << "Reserved0", "BT1886", "Unspecified", "Reserved", "BT470M", "BT470BG",
        "ST170M", "ST240M", "Linear", "Logarithmic100", "Logarithmic316",
        "XVYCC", "BT1361E", "SRGB", "BT2020Ten", "BT2020Twelve",
        "PerceptualQuantizer", "ST428", "HybridLogGamma" >>[c + 1]]

ColorPrimaries ==
  [c \in 0..12 |->
     << "Reserved0", "BT709", "Unspecified", "Reserved", "BT470M", "BT470BG",
        "ST170M", "ST240M", "Film", "BT2020", "ST428", "P3DCI",
        "P3Display" >>[c + 1]] @@ (22 :> "Tech3213")

AsU8(enum, variant) == CHOOSE c \in DOMAIN enum : enum[c] = variant

from_u8(enum, intval) ==
  IF intval \in DOMAIN enum THEN Some(enum[intval]) ELSE None

MatrixAliases ==
  {<< << "i", "d", "e", "n", "t", "i", "t", "y" >>, "Identity" >>,
   << << "r", "g", "b" >>, "Identity" >>,
   << << "s", "r", "g", "b" >>, "Identity" >>,
   << << "s", "m", "p", "t", "e", "4", "2", "8" >>, "Identity" >>,
   << << "x", "y", "z" >>, "Identity" >>,
   << << "7", "0", "9" >>, "BT709" >>,
   << << "b", "t", "7", "0", "9" >>, "BT709" >>,
   << << "u", "n", "s", "p", "e", "c", "i", "f", "i", "e", "d" >>, "Unspecified" >>,
   << << "b", "t", "4", "7", "0", "m" >>, "BT470M" >>,
   << << "4", "7", "0", "m" >>, "BT470M" >>,
   << << "b", "t", "4", "7", "0", "b", "g" >>, "BT470BG" >>,
   << << "4", "7", "0", "b", "g" >>, "BT470BG" >>,
   << << "6", "0", "1", "-", "6", "2", "5" >>, "BT470BG" >>,
   << << "b", "t", "6", "0", "1", "-", "6", "2", "5" >>, "BT470BG" >>,
   << << "p", "a", "l" >>, "BT470BG" >>,
   << << "s", "m", "p", "t", "e", "1", "7", "0", "m" >>, "ST170M" >>,
   << << "1", "7", "0", "m" >>, "ST170M" >>,
   << << "6", "0", "1", "-", "5", "2", "5" >>, "ST170M" >>,
   << << "b", "t", "6", "0", "1", "-", "5", "2", "5" >>, "ST170M" >>,
   << << "b", "t", "6", "0", "1" >>, "ST170M" >>,
   << << "6", "0", "1" >>, "ST170M" >>,
   << << "n", "t", "s", "c" >>, "ST170M" >>,
   << << "2", "4", "0", "m" >>, "ST240M" >>,
   << << "s", "m", "p", "t", "e", "2", "4", "0", "m" >>, "ST240M" >>,
   << << "y", "c", "g", "c", "o" >>, "YCgCo" >>,
   << << "2", "0", "2", "0" >>, "BT2020NonConstantLuminance" >>,
   << << "2", "0", "2", "0", "n", "c", "l" >>, "BT2020NonConstantLuminance" >>,
   << << "2", "0", "2", "0", "-", "n", "c", "l" >>, "BT2020NonConstantLuminance" >>,
   << << "b", "t", "2", "0", "2", "0" >>, "BT2020NonConstantLuminance" >>,
   << << "b", "t", "2", "0", "2", "0", "n", "c", "l" >>, "BT2020NonConstantLuminance" >>,
   << << "b", "t", "2", "0", "2", "0", "-", "n", "c", "l" >>, "BT2020NonConstantLuminance" >>,
   << << "2", "0", "2", "0", "c", "l" >>, "BT2020ConstantLuminance" >>,
   << << "2", "0", "2", "0", "-", "c", "l" >>, "BT2020ConstantLuminance" >>,
   << << "b", "t", "2", "0", "2", "0", "c", "l" >>, "BT2020ConstantLuminance" >>,
   << << "b", "t", "2", "0", "2", "0", "-", "c", "l" >>, "BT2020ConstantLuminance" >>,
   << << "2", "0", "8", "5" >>, "ST2085" >>,
   << << "s", "m", "p", "t", "e", "2", "0", "8", "5" >>, "ST2085" >>,
   << << "c", "d", "-", "n", "c", "l" >>, "ChromaticityDerivedNonConstantLuminance" >>,
   << << "c", "d", "-", "c", "l" >>, "ChromaticityDerivedConstantLuminance" >>,
   << << "2", "1", "0", "0" >>, "ICtCp" >>,
   << << "b", "t", "2", "1", "0", "0" >>, "ICtCp" >>,
   << << "i", "c", "t", "c", "p" >>, "ICtCp" >>}

TransferAliases ==
  {<< << "7", "0", "9" >>, "BT1886" >>,
   << << "b", "t", "7", "0", "9" >>, "BT1886" >>,
   << << "1", "8", "8", "6" >>, "BT1886" >>,
   << << "b", "t", "1", "8", "8", "6" >>, "BT1886" >>,
   << << "1", "3", "6", "1" >>, "BT1886" >>,
   << << "b", "t", "1", "3", "6", "1" >>, "BT1886" >>,
   << << "u", "n", "s", "p", "e", "c", "i", "f", "i", "e", "d" >>, "Unspecified" >>,
   << << "4", "7", "0", "m" >>, "BT470M" >>,
   << << "b", "t", "4", "7", "0", "m" >>, "BT470M" >>,
   << << "p", "a", "l" >>, "BT470M" >>,
   << << "4", "7", "0", "b", "g" >>, "BT470BG" >>,
   << << "b", "t", "4", "7", "0", "b", "g" >>, "BT470BG" >>,
   << << "6", "0", "1" >>, "ST170M" >>,
   << << "b", "t", "6", "0", "1" >>, "ST170M" >>,
   << << "n", "t", "s", "c" >>, "ST170M" >>,
   << << "s", "m", "p", "t", "e", "1", "7", "0", "m" >>, "ST170M" >>,
   << << "1", "7", "0", "m" >>, "ST170M" >>,
   << << "1", "3", "5", "8" >>, "ST170M" >>,
   << << "b", "t", "1", "3", "5", "8" >>, "ST170M" >>,
   << << "1", "7", "0", "0" >>, "ST170M" >>,
   << << "b", "t", "1", "7", "0", "0" >>, "ST170M" >>,
   << << "2", "4", "0", "m" >>, "ST240M" >>,
   << << "s", "m", "p", "t", "e", "2", "4", "0", "m" >>, "ST240M" >>,
   << << "l", "i", "n", "e", "a", "r" >>, "Linear" >>,
   << << "l", "o", "g", "1", "0", "0" >>, "Logarithmic100" >>,
   << << "l", "o", "g", "3", "1", "6" >>, "Logarithmic316" >>,
   << << "x", "v", "y", "c", "c" >>, "XVYCC" >>,
   << << "1", "3", "6", "1", "e" >>, "BT1361E" >>,
   << << "b", "t", "1", "3", "6", "1", "e" >>, "BT1361E" >>,
   << << "s", "r", "g", "b" >>, "SRGB" >>,
   << << "2", "0", "2", "0" >>, "BT2020Ten" >>,
   << << "b", "t", "2", "0", "2", "0" >>, "BT2020Ten" >>,
   << << "2", "0", "2", "0", "-", "1", "0" >>, "BT2020Ten" >>,
   << << "b", "t", "2", "0", "2", "0", "-", "1", "0" >>, "BT2020Ten" >>,
   << << "2", "0", "2", "0", "-", "1", "2" >>, "BT2020Twelve" >>,
   << << "b", "t", "2", "0", "2", "0", "-", "1", "2" >>, "BT2020Twelve" >>,
   << << "p", "q" >>, "PerceptualQuantizer" >>,
   << << "2", "0", "8", "4" >>, "PerceptualQuantizer" >>,
   << << "s", "m", "p", "t", "e", "2", "0", "8", "4" >>, "PerceptualQuantizer" >>,
   << << "2", "1", "0", "0" >>, "PerceptualQuantizer" >>,
   << << "b", "t", "2", "1", "0", "0" >>, "PerceptualQuantizer" >>,
   << << "4", "2", "8" >>, "ST428" >>,
   << << "s", "m", "p", "t", "e", "4", "2", "8" >>, "ST428" >>,
   << << "h", "l", "g" >>, "HybridLogGamma" >>,
   << << "b", "6", "7" >>, "HybridLogGamma" >>,
   << << "a", "r", "i", "b", "-", "b", "6", "7" >>, "HybridLogGamma" >>}

PrimariesAliases ==
  {<< << "7", "0", "9" >>, "BT709" >>,
   << << "b", "t", "7", "0", "9" >>, "BT709" >>,
   << << "1", "3", "6", "1" >>, "BT709" >>,
   << << "b", "t", "1", "3", "6", "1" >>, "BT709" >>,
   << << "s", "r", "g", "b" >>, "BT709" >>,
   << << "u", "n", "s", "p", "e", "c", "i", "f", "i", "e", "d" >>, "Unspecified" >>,
   << << "4", "7", "0", "m" >>, "BT470M" >>,
   << << "b", "t", "4", "7", "0", "m" >>, "BT470M" >>,
   << << "4", "7", "0", "b", "g" >>, "BT470BG" >>,
   << << "b", "t", "4", "7", "0", "b", "g" >>, "BT470BG" >>,
   << << "6", "0", "1", "-", "6", "2", "5" >>, "BT470BG" >>,
   << << "b", "t", "6", "0", "1", "-", "6", "2", "5" >>, "BT470BG" >>,
   << << "p", "a", "l" >>, "BT470BG" >>,
   << << "s", "m", "p", "t", "e", "1", "7", "0", "m" >>, "ST170M" >>,
   << << "1", "7", "0", "m" >>, "ST170M" >>,
   << << "6", "0", "1", "-", "5", "2", "5" >>, "ST170M" >>,
   << << "b", "t", "6", "0", "1", "-", "5", "2", "5" >>, "ST170M" >>,
   << << "b", "t", "6", "0", "1" >>, "ST170M" >>,
   << << "6", "0", "1" >>, "ST170M" >>,
   << << "n", "t", "s", "c" >>, "ST170M" >>,
   << << "2", "4", "0", "m" >>, "ST240M" >>,
   << << "s", "m", "p", "t", "e", "2", "4", "0", "m" >>, "ST240M" >>,
   << << "f", "i", "l", "m" >>, "Film" >>,
   << << "c" >>, "Film" >>,
   << << "2", "0", "2", "0" >>, "BT2020" >>,
   << << "b", "t", "2", "0", "2", "0" >>, "BT2020" >>,
   << << "2", "1", "0", "0" >>, "BT2020" >>,
   << << "b", "t", "2", "1", "0", "0" >>, "BT2020" >>,
   << << "4", "2", "8" >>, "ST428" >>,
   << << "s", "m", "p", "t", "e", "4", "2", "8" >>, "ST428" >>,
   << << "x", "y", "z" >>, "ST428" >>,
   << << "p", "3" >>, "P3DCI" >>,
   << << "p", "3", "d", "c", "i" >>, "P3DCI" >>,
   << << "p", "3", "-", "d", "c", "i" >>, "P3DCI" >>,
   << << "4", "3", "1" >>, "P3DCI" >>,
   << << "s", "m", "p", "t", "e", "4", "3", "1" >>, "P3DCI" >>,
   << << "p", "3", "d", "i", "s", "p", "l", "a", "y" >>, "P3Display" >>,
   << << "p", "3", "-", "d", "i", "s", "p", "l", "a", "y" >>, "P3Display" >>,
   << << "4", "3", "2" >>, "P3Display" >>,
   << << "s", "m", "p", "t", "e", "4", "3", "2" >>, "P3Display" >>,
   << << "3", "2", "1", "3" >>, "Tech3213" >>,
   << << "t", "e", "c", "h", "3", "2", "1", "3" >>, "Tech3213" >>}

Match(aliases, token, message) ==
  IF \E a \in aliases : a[1] = token
  THEN Ok((CHOOSE a \in aliases : a[1] = token)[2])
  ELSE Panic(message)

Parse(input_token, enum, highest, aliases, invalid, unrecognized) ==
  LET intval == ParseU8(input_token)
  IN  IF IsSome(intval) /\ intval[1] <= AsU8(enum, highest)
      THEN IF IsSome(from_u8(enum, intval[1]))
           THEN Ok(from_u8(enum, intval[1])[1])
           ELSE Panic(invalid)
      ELSE Match(aliases, ToAsciiLowercase(input_token), unrecognized)

parse_matrix(input_token) ==
  Parse(input_token, MatrixCoefficients, "ICtCp", MatrixAliases,
        "Invalid matrix coefficient value",
        "Unrecognized matrix coefficient string")

parse_transfer(input_token) ==
  Parse(input_token, TransferCharacteristic, "HybridLogGamma", TransferAliases,
        "Invalid transfer characteristics value",
        "Unrecognized transfer characteristics string")

parse_primaries(input_token) ==
  Parse(input_token, ColorPrimaries, "Tech3213", PrimariesAliases,
        "Invalid color primaries value",
        "Unrecognized color primaries string")

(* main.rs: an option that is not given is Unspecified, one that is given   *)
(* is parsed.                                                               *)
MatrixArg ==
  /\ parsed = None
  /\ parsed' = Some(<< "matrix", IF IsSome(input) THEN parse_matrix(input[1])
                                  ELSE Ok("Unspecified") >>)
  /\ UNCHANGED << argvars, vsvars, mainvars, colorvars, cursorvars, workervars,
                  aggvars, histvars >>

TransferArg ==
  /\ parsed = None
  /\ parsed' = Some(<< "transfer", IF IsSome(input) THEN parse_transfer(input[1])
                                    ELSE Ok("Unspecified") >>)
  /\ UNCHANGED << argvars, vsvars, mainvars, colorvars, cursorvars, workervars,
                  aggvars, histvars >>

PrimariesArg ==
  /\ parsed = None
  /\ parsed' = Some(<< "primaries", IF IsSome(input) THEN parse_primaries(input[1])
                                     ELSE Ok("Unspecified") >>)
  /\ UNCHANGED << argvars, vsvars, mainvars, colorvars, cursorvars, workervars,
                  aggvars, histvars >>

(* The tokens tried: every alias of the three parsers, as written and with   *)
(* its first character in upper case, the numbers 0 to 23, numbers around    *)
(* u8::MAX, and tokens that are neither.                                     *)
Capital(token) ==
  [i \in DOMAIN token |->
     IF i = 1 /\ \E u \in DOMAIN UpperToLower : UpperToLower[u] = token[i]
     THEN CHOOSE u \in DOMAIN UpperToLower : UpperToLower[u] = token[i]
     ELSE token[i]]

Numerals ==
  {<< d >> : d \in DOMAIN DigitValue}
    \cup {<< "1", d >> : d \in DOMAIN DigitValue}
    \cup {<< "2", d >> : d \in {"0", "1", "2", "3"}}
    \cup {<< "2", "5", "5" >>, << "2", "5", "6" >>, << "+", "1" >>, << "0", "1" >>,
          << "-", "1" >>, << "+" >>, << "1", "4", "1" >>}

Tokens ==
  {a[1] : a \in MatrixAliases \cup TransferAliases \cup PrimariesAliases}
    \cup {Capital(a[1]) : a \in MatrixAliases \cup TransferAliases \cup PrimariesAliases}
    \cup Numerals
    \cup {<< >>, << "b", "o", "g", "u", "s" >>, << "b", "t", "7", "0", "9", " " >>,
          << "B", "T", "7", "0", "9" >>, << "r", "e", "s", "e", "r", "v", "e", "d" >>}

ParseInit ==
  /\ New(NoClip)
  /\ inc = 1
  /\ frame_threads = 1
  /\ start_frame = None
  /\ frames_to_compare = None
  /\ src_len = 1
  /\ dst_len = 1
  /\ failing = {}
  /\ source_info = [width |-> 1280, height |-> 720]
  /\ distorted_info = [width |-> 1280, height |-> 720]
  /\ src_matrix = "Unspecified"
  /\ src_transfer = "Unspecified"
  /\ src_primaries = "Unspecified"
  /\ dst_matrix = "Unspecified"
  /\ dst_transfer = "Unspecified"
  /\ dst_primaries = "Unspecified"
  /\ input \in OptSet(Tokens)
  /\ parsed = None
  /\ progress_len = None
  /\ chart = None
  /\ avg = << 0, 1 >>
  /\ main = "start"
  /\ error = "none"
  /\ source_frame_count = None
  /\ distorted_frame_count = None
  /\ warned = FALSE
  /\ end_frame = None
  /\ current_frame = 0
  /\ next_frame = 0
  /\ src_pos = 0
  /\ dst_pos = 0
  /\ lock = 0
  /\ spawned = 0
  /\ result_tx = FALSE
  /\ pc = [w \in Workers |-> "unspawned"]
  /\ curr_frame = [w \in Workers |-> 0]
  /\ next_local = [w \in Workers |-> 0]
  /\ held = [w \in Workers |-> None]
  /\ chan = << >>
  /\ results = << >>
  /\ scores = None
  /\ acquired = << >>
  /\ failed = {}
  /\ sent = << >>
  /\ received = 0

ParseNext == MatrixArg \/ TransferArg \/ PrimariesArg

ParseSpec == ParseInit /\ [][ParseNext]_vars

(***************************************************************************)
(* The receive loop on its own: a run of one worker over two streams of n   *)
(* frames, at the moment the worker has sent its n records and exited and   *)
(* the coordinating thread enters the loop; the scores are any the metric   *)
(* may give.                                                                *)
(***************************************************************************)
ScoreValues == {10, 90}

Records(n) ==
  {[i \in 1..n |-> << i - 1, score[i] >>] : score \in [1..n -> ScoreValues]}

AggInit ==
  \E n \in 0..MaxRecords :
    /\ New(NoClip)
    /\ inc = 1
    /\ frame_threads = 1
    /\ start_frame = None
    /\ frames_to_compare = None
    /\ src_len = n
    /\ dst_len = n
    /\ failing = {}
    /\ source_info = [width |-> 1280, height |-> 720]
    /\ distorted_info = [width |-> 1280, height |-> 720]
    /\ src_matrix = "BT709"
    /\ src_transfer = "BT1886"
    /\ src_primaries = "BT709"
    /\ dst_matrix = "BT709"
    /\ dst_transfer = "BT1886"
    /\ dst_primaries = "BT709"
    /\ input = None
    /\ parsed = None
    /\ progress_len = Some(n)
    /\ chart = None
    /\ avg = << 0, 1 >>
    /\ main = "recv"
    /\ error = "none"
    /\ source_frame_count = Some(n)
    /\ distorted_frame_count = Some(n)
    /\ warned = FALSE
    /\ end_frame = None
    /\ current_frame = n + 1
    /\ next_frame = n + 1
    /\ src_pos = n
    /\ dst_pos = n
    /\ lock = 0
    /\ spawned = 1
    /\ result_tx = FALSE
    /\ pc = [w \in Workers |-> IF w = 1 THEN "exited" ELSE "unspawned"]
    /\ curr_frame = [w \in Workers |-> 0]
    /\ next_local = [w \in Workers |-> 0]
    /\ held = [w \in Workers |-> None]
    /\ chan \in Records(n)
    /\ results = << >>
    /\ scores = None
    /\ acquired = [i \in 1..n |-> i - 1]
    /\ failed = {}
    /\ sent = [i \in 1..n |-> i - 1]
    /\ received = 0

AggNext ==
  \/ Recv
  \/ \E graph \in BOOLEAN : Finish(graph)

AggSpec == AggInit /\ [][AggNext]_vars

(***************************************************************************)
(* vapoursynth.rs: the script-based decoder on its own.  The clip is what   *)
(* the script's output node reports (format, resolution, num_frames); each  *)
(* call of read_video_frame names its pixel type T by size_of::<T>() and    *)
(* may meet a failure of the script environment: of get_output, or of the   *)
(* frame request.                                                           *)
(***************************************************************************)
SampleTypes == {"Integer", "Float"}
Formats ==
  {VariableFormat} \cup
  [property : {"Constant"}, sample_type : SampleTypes, bytes_per_sample : {1, 2}]
Resolutions == {"Variable", "Constant"}
Clips == [format : Formats, resolution : Resolutions, num_frames : 0..MaxLen]
PixelSizes == {1, 2}
Faults == {"none", "get_output", "get_frame"}

FrameOk(n) == [kind |-> "Ok", frame |-> n, message |-> ""]
Err(message) == [kind |-> "Err", frame |-> 0, message |-> message]
AssertionFailed == [kind |-> "Panic", frame |-> 0, message |-> "assertion failed"]

get_node(fault) ==
  IF fault = "get_output" THEN Err("get_output") ELSE FrameOk(0)

get_resolution(fault) ==
  IF get_node(fault).kind = "Err" THEN get_node(fault)
  ELSE IF clip.resolution = "Variable"
  THEN Err("Variable resolution videos are not supported")
  ELSE FrameOk(0)

get_format(fault) ==
  IF get_node(fault).kind = "Err" THEN get_node(fault)
  ELSE IF clip.format.property = "Variable"
  THEN Err("Variable format videos are not supported")
  ELSE FrameOk(0)

(* Node::get_frame(n): the frame n of the clip, an error beyond its end or  *)
(* when the script fails to produce it.                                     *)
get_frame(n, fault) ==
  IF get_node(fault).kind = "Err" THEN get_node(fault)
  ELSE IF fault = "get_frame" \/ n >= clip.num_frames
  THEN Err("get_frame")
  ELSE FrameOk(n)

(* What a call returns, in the order of the function's checks.              *)
ReadResult(size, fault) ==
  IF get_format(fault).kind = "Err" THEN get_format(fault)
  ELSE IF clip.format.bytes_per_sample # size THEN AssertionFailed
  ELSE IF clip.format.sample_type # "Integer"
  THEN Err("Currently only integer input is supported")
  ELSE IF get_resolution(fault).kind = "Err" THEN get_resolution(fault)
  ELSE get_frame(cur_frame, fault)

VsUnchanged ==
  UNCHANGED << argvars, mainvars, colorvars, parsed, cursorvars, workervars,
               aggvars, histvars, clip >>

read_video_frame_counting_calls(size, fault) ==
  /\ read_result # Some(AssertionFailed)
  /\ read_result' = Some(ReadResult(size, fault))
  /\ cur_frame' = IF ReadResult(size, fault).kind = "Panic"
                  THEN cur_frame ELSE cur_frame + 1
  /\ reads_ok' = IF ReadResult(size, fault).kind = "Ok"
                 THEN reads_ok + 1 ELSE reads_ok
  /\ VsUnchanged

read_video_frame(size, fault) ==
  /\ read_result # Some(AssertionFailed)
  /\ read_result' = Some(ReadResult(size, fault))
  /\ cur_frame' = IF ReadResult(size, fault).kind = "Ok"
                  THEN cur_frame + 1 ELSE cur_frame
  /\ reads_ok' = IF ReadResult(size, fault).kind = "Ok"
                 THEN reads_ok + 1 ELSE reads_ok
  /\ VsUnchanged

VsInit ==
  /\ \E node \in Clips : New(node)
  /\ inc = 1
  /\ frame_threads = 1
  /\ start_frame = None
  /\ frames_to_compare = None
  /\ src_len = 1
  /\ dst_len = 1
  /\ failing = {}
  /\ source_info = [width |-> 1280, height |-> 720]
  /\ distorted_info = [width |-> 1280, height |-> 720]
  /\ src_matrix = "Unspecified"
  /\ src_transfer = "Unspecified"
  /\ src_primaries = "Unspecified"
  /\ dst_matrix = "Unspecified"
  /\ dst_transfer = "Unspecified"
  /\ dst_primaries = "Unspecified"
  /\ input = None
  /\ parsed = None
  /\ progress_len = None
  /\ chart = None
  /\ avg = << 0, 1 >>
  /\ main = "start"
  /\ error = "none"
  /\ source_frame_count = None
  /\ distorted_frame_count = None
  /\ warned = FALSE
  /\ end_frame = None
  /\ current_frame = 0
  /\ next_frame = 0
  /\ src_pos = 0
  /\ dst_pos = 0
  /\ lock = 0
  /\ spawned = 0
  /\ result_tx = FALSE
  /\ pc = [w \in Workers |-> "unspawned"]
  /\ curr_frame = [w \in Workers |-> 0]
  /\ next_local = [w \in Workers |-> 0]
  /\ held = [w \in Workers |-> None]
  /\ chan = << >>
  /\ results = << >>
  /\ scores = None
  /\ acquired = << >>
  /\ failed = {}
  /\ sent = << >>
  /\ received = 0

VsNext == \E size \in PixelSizes, fault \in Faults : read_video_frame(size, fault)

VsSpec == VsInit /\ [][VsNext]_vars

(***************************************************************************)
(* Vocabulary of the properties.                                           *)
(***************************************************************************)
Range(seq) == {seq[i] : i \in DOMAIN seq}
NoDuplicates(seq) == \A i, j \in DOMAIN seq : i # j => seq[i] # seq[j]
Shorter == Min(src_len, dst_len)
Spawned == 1..spawned
Exited(w) == pc[w] \in {"exited", "panicked"}
CursorBuilt == main \in {"spawn", "progress", "recv", "done"} \/ error = "overflow"
Frames == IF scores = None THEN 0 ELSE Len(scores[1])

(* The sampled indices: start_frame + k*inc, below the shorter stream's    *)
(* length and, with frames_to_compare = n, with k < n.                     *)
Sampled ==
  {i \in 0..(Shorter - 1) :
     \E k \in 0..Shorter :
       /\ i = StartFrame + k * inc
       /\ IsSome(frames_to_compare) => k < frames_to_compare[1]}

(* C1: the indices the cursor returns are sampled indices, none twice; once *)
(* a worker has been told end-of-stream they are all the sampled indices;   *)
(* the finished run holds a record for each of them but those whose scoring *)
(* panicked, so ceil(L/inc) records for two streams of length L read from   *)
(* frame 0 with no window.                                                  *)
C1_EmittedIndices ==
  /\ NoDuplicates(acquired)
  /\ NoDuplicates(sent)
  /\ Range(acquired) \subseteq Sampled
  /\ (\E w \in Spawned : pc[w] = "exited") => Range(acquired) = Sampled
  /\ main = "done" => DOMAIN results = Range(acquired) \ failed
  /\ (main = "done" /\ failed = {}) => DOMAIN results = Sampled
  /\ (main = "done" /\ failed = {} /\ src_len = dst_len /\ StartFrame = 0
        /\ frames_to_compare = None)
       => Frames = CeilDiv(src_len, inc)

C1_Witness ==
  /\ main = "done"
  /\ inc = 2
  /\ frame_threads = 2
  /\ src_len = 3
  /\ dst_len = 3
  /\ DOMAIN results = {0, 2}
  /\ Frames = 2

(* C2: with frames_to_compare = n the end bound is start_frame + n*inc, an  *)
(* index c is returned only when c + inc does not exceed it, a run makes at *)
(* most n records, and when both streams reach past the last sampled index  *)
(* the cursor returns exactly start_frame + k*inc for k < n.                *)
Window == {StartFrame + k * inc : k \in 0..(UnwrapOr(frames_to_compare, 0) - 1)}

C2_EndBound ==
  (CursorBuilt /\ IsSome(frames_to_compare)) =>
    /\ end_frame = Some(StartFrame + frames_to_compare[1] * inc)
    /\ \A c \in Range(acquired) : c + inc <= end_frame[1]
    /\ Len(acquired) <= frames_to_compare[1]
    /\ Len(sent) <= frames_to_compare[1]
    /\ Cardinality(DOMAIN results) <= frames_to_compare[1]
    /\ ((\A c \in Window : c < Shorter) /\ (\E w \in Spawned : pc[w] = "exited"))
         => Range(acquired) = Window
    /\ ((\A c \in Window : c < Shorter) /\ main = "done" /\ failed = {})
         => DOMAIN results = Window

C2_Witness ==
  /\ main = "done"
  /\ frame_threads = 2
  /\ start_frame = Some(1)
  /\ frames_to_compare = Some(1)
  /\ inc = 2
  /\ src_len = 3
  /\ dst_len = 3
  /\ DOMAIN results = {1}

(* The result a run with a single worker ends with: the worker scores the   *)
(* sampled indices in ascending order and stops at the first one whose      *)
(* scoring panics.                                                          *)
OneWorkerKeys ==
  {i \in Sampled : \A f \in Sampled : MetricFails(f, f) => i < f}

OneWorkerResult == [i \in OneWorkerKeys |-> compute_frame_ssimulacra2(i, i)]

(* The result a run with frame_threads workers ends with, whatever the      *)
(* interleaving: every panic ends one worker, so the sampled indices are    *)
(* handed out until frame_threads of them have panicked.                    *)
FailingBelow(i) == {f \in Sampled : MetricFails(f, f) /\ f < i}

ThreadsResult ==
  [i \in {s \in Sampled : ~MetricFails(s, s)
                          /\ Cardinality(FailingBelow(s)) < frame_threads}
     |-> compute_frame_ssimulacra2(i, i)]

ScheduleIndependent == main = "done" => results = ThreadsResult

(* C3: the final frame-index -> score mapping, the score sequence and the   *)
(* frame count are the same for every interleaving and every number of      *)
(* worker threads: they are those of the run with one worker.               *)
C3_Deterministic ==
  main = "done" =>
    /\ results = OneWorkerResult
    /\ scores = Some(IntoValues(OneWorkerResult))

(* C4: at most one worker is inside the locked section of calc_score, that *)
(* worker is the holder of the lock, and a step that reads a decoder or     *)
(* reads or writes current_frame / next_frame is a step of the holder.      *)
InLock(w) == pc[w] \in {"skip", "read"}

StepOf(w) ==
  \/ pc'[w] # pc[w]
  \/ curr_frame'[w] # curr_frame[w]
  \/ next_local'[w] # next_local[w]

C4_MutualExclusion ==
  /\ [](\A w \in Workers : InLock(w) => lock = w)
  /\ [](\A v, w \in Workers : (InLock(v) /\ InLock(w)) => v = w)
  /\ [][(CursorBuilt /\ << current_frame, next_frame, src_pos, dst_pos >>
                           # << current_frame', next_frame', src_pos', dst_pos' >>)
          => (lock # 0 /\ InLock(lock) /\ StepOf(lock)
              /\ \A w \in Workers \ {lock} : ~StepOf(w))]_vars
  /\ [][\A w \in Workers :
          (StepOf(w) /\ pc[w] \in {"idle", "skip", "read"}
             /\ pc'[w] \in {"skip", "read", "scoring", "exited"})
            => (lock' = w \/ lock = w)]_vars

C4_Witness ==
  /\ lock = 1
  /\ pc[1] = "skip"
  /\ pc[2] = "idle"
  /\ src_pos = 1
  /\ dst_pos = 1

(* C5: a run of a valid configuration stops only once every worker has been *)
(* told end-of-stream and has exited, every Sender is dropped, the receive   *)
(* loop has ended and the summary is printed.                                *)
ConfigurationError == error \in {"both_piped", "no_frame_count"}

C5_Terminates ==
  (~ENABLED Next /\ ~ConfigurationError) =>
    /\ main = "done"
    /\ scores # None
    /\ SendersAlive = 0

(* C6: the receive loop ends only after every worker has exited; no record  *)
(* is lost or taken twice, no insertion overwrites a key, so the finished   *)
(* map holds one entry per record sent, and the scores of the summary are   *)
(* in ascending order of frame index whatever the order of arrival.         *)
RankOf(i) == 1 + Cardinality({j \in Range(sent) : j < i})

C6_Aggregation ==
  /\ received + Len(chan) = Len(sent)
  /\ \A n \in DOMAIN chan : chan[n][1] = sent[received + n]
  /\ Cardinality(DOMAIN results) = received
  /\ DOMAIN results = {sent[n] : n \in 1..received}
  /\ \A i \in DOMAIN results : results[i] = compute_frame_ssimulacra2(i, i)
  /\ main = "done" =>
       /\ spawned = frame_threads
       /\ \A w \in Workers : w \in Spawned => Exited(w)
       /\ chan = << >>
       /\ DOMAIN results = Range(sent)
       /\ Len(scores[1]) = Len(sent)
       /\ \A i \in Range(sent) :
            scores[1][RankOf(i)] = compute_frame_ssimulacra2(i, i)

C6_Witness ==
  /\ main = "done"
  /\ sent = << 2, 0 >>
  /\ scores = Some(<< compute_frame_ssimulacra2(0, 0),
                      compute_frame_ssimulacra2(2, 2) >>)

(* C7: once the scoring of a frame pair has failed no further record is     *)
(* produced, and the engine does not print a summary over the records that  *)
(* are left.                                                                *)
C7_FailureIsFatal ==
  /\ [](failed # {} => (main # "done" /\ scores = None))
  /\ [][failed # {} => sent' = sent]_vars

(* C8: both inputs piped, or a start frame with no frame count, ends the    *)
(* coordinating thread before the cursor is built, before any worker is     *)
(* spawned and before any frame is read: no record is ever produced.        *)
NothingStarted ==
  /\ main = "panicked"
  /\ ~result_tx
  /\ end_frame = None
  /\ spawned = 0
  /\ \A w \in Workers : pc[w] = "unspawned"
  /\ lock = 0
  /\ src_pos = 0
  /\ dst_pos = 0
  /\ acquired = << >>
  /\ sent = << >>
  /\ chan = << >>
  /\ results = << >>
  /\ scores = None

C8_ConfigurationErrors ==
  /\ [](ConfigurationError => (NothingStarted /\ ~ENABLED Next))
  /\ [][\A s \in Paths, d \in Paths :
          (CompareVideos(s, d) /\ IsPiped(s) /\ IsPiped(d))
            => error' = "both_piped"]_vars
  /\ [][(Inner /\ IsSome(start_frame) /\ source_frame_count = None
           /\ distorted_frame_count = None)
          => error' = "no_frame_count"]_vars

C8_Witness ==
  /\ error = "no_frame_count"
  /\ start_frame = Some(1)
  /\ src_len = 3
  /\ dst_len = 3
  /\ frame_threads = 2

(* C9: the warning is printed exactly when both frame counts are known and  *)
(* differ; such a run goes on to score, only indices below the shorter      *)
(* stream's length, and ends with the summary, never with a panic.          *)
WarnedExactly ==
  /\ main \in {"start", "inner"} => ~warned
  /\ main \notin {"start", "inner"} => (warned <=> FrameCountMismatch)

BelowShorter ==
  /\ \A c \in Range(acquired) \cup Range(sent) \cup DOMAIN results : c < Shorter
  /\ Len(sent) <= Shorter

MismatchGoesOn ==
  [][(Inner /\ FrameCountMismatch) => (warned' /\ main' = "spawn")]_vars

C9_MismatchNonFatal ==
  /\ []WarnedExactly
  /\ []BelowShorter
  /\ MismatchGoesOn
  /\ [](warned => main # "panicked")

(* What holds of a run with mismatched frame counts: all of the above but   *)
(* the last line; the only panic left to it is the overflow in the progress *)
(* bar's set-up, with start_frame above the frame count.                    *)
MismatchPanicsOnlyOnOverflow ==
  /\ []WarnedExactly
  /\ []BelowShorter
  /\ MismatchGoesOn
  /\ [](warned /\ main = "panicked"
          => error = "overflow" /\ StartFrame > FrameCount[1])

(* C10: next_frame >= current_frame in every state of the cursor, which     *)
(* starts with current_frame = 0 and next_frame = start_frame; current_frame *)
(* never decreases and an index returned for scoring is never below it.     *)
C10_CursorInvariant ==
  /\ [](inc >= 1)
  /\ [](CursorBuilt => next_frame >= current_frame)
  /\ [](\A w \in Workers : InLock(w) => curr_frame[w] >= current_frame)
  /\ [][(main = "inner" /\ main' = "spawn")
          => (current_frame' = 0 /\ next_frame' = StartFrame)]_vars
  /\ [][CursorBuilt => current_frame' >= current_frame]_vars
  /\ [][acquired' # acquired
          => (/\ acquired' = Append(acquired, acquired'[Len(acquired')])
              /\ acquired'[Len(acquired')] >= current_frame
              /\ current_frame' = acquired'[Len(acquired')] + 1
              /\ \A n \in DOMAIN acquired : acquired[n] < current_frame)]_vars

C10_Witness ==
  /\ inc = 2
  /\ current_frame = 3
  /\ next_frame = 4
  /\ acquired = << 0, 2 >>

(* C11: in lock order the cursor hands out start_frame, start_frame + inc,  *)
(* start_frame + 2*inc, ...: each index is the one before plus inc, so      *)
(* strictly above all earlier ones, none twice, none of the sampled indices *)
(* left out; the index of a frame pair is the position of its frames in     *)
(* both streams.  The records may reach the channel in another order.       *)
C11_DecodeOrder ==
  /\ Len(acquired) >= 1 => acquired[1] = StartFrame
  /\ \A n \in 1..(Len(acquired) - 1) : acquired[n + 1] = acquired[n] + inc
  /\ \A m, n \in DOMAIN acquired : m < n => acquired[m] < acquired[n]
  /\ \A w \in Workers :
       IsSome(held[w]) =>
         /\ held[w][1][2] = held[w][1][1]
         /\ held[w][1][3] = held[w][1][1]
         /\ held[w][1][1] \in Range(acquired)

C11_Witness ==
  /\ inc = 1
  /\ start_frame = Some(1)
  /\ acquired = << 1, 2 >>
  /\ sent = << 2, 1 >>

(* C12: an Unspecified matrix becomes BT709 when width >= 1280 or height >  *)
(* 576, BT470BG when width < 1280 and height = 576, ST170M when width <     *)
(* 1280 and height < 576; one of the three cases holds of every resolution. *)
MatrixAsClaimed(matrix, info) ==
  /\ (info.width >= 1280 \/ info.height > 576) => matrix = "BT709"
  /\ (info.width < 1280 /\ info.height = 576) => matrix = "BT470BG"
  /\ (info.width < 1280 /\ info.height < 576) => matrix = "ST170M"
  /\ matrix \in {"BT709", "BT470BG", "ST170M"}

C12_MatrixInference ==
  [][(Inner /\ main' = "spawn") =>
       /\ src_matrix = "Unspecified" => MatrixAsClaimed(src_matrix', source_info)
       /\ dst_matrix = "Unspecified" => MatrixAsClaimed(dst_matrix', distorted_info)]_vars

C12_Witness ==
  /\ main = "spawn"
  /\ source_info = [width |-> 1279, height |-> 576]
  /\ src_matrix = "BT470BG"
  /\ distorted_info = [width |-> 1279, height |-> 575]
  /\ dst_matrix = "ST170M"

(* C13: Unspecified primaries become, by the stream's resolved matrix and   *)
(* its resolution: BT2020 for either BT.2020 matrix; else BT709 for matrix  *)
(* BT709, width >= 1280 or height > 576; else BT470BG for height 576; else  *)
(* ST170M for height 480 or 488; else BT709.                                *)
IsBT2020(matrix) ==
  matrix \in {"BT2020NonConstantLuminance", "BT2020ConstantLuminance"}

IsHD(matrix, info) ==
  matrix = "BT709" \/ info.width >= 1280 \/ info.height > 576

PrimariesAsClaimed(primaries, matrix, info) ==
  /\ IsBT2020(matrix) => primaries = "BT2020"
  /\ (~IsBT2020(matrix) /\ IsHD(matrix, info)) => primaries = "BT709"
  /\ (~IsBT2020(matrix) /\ ~IsHD(matrix, info) /\ info.height = 576)
       => primaries = "BT470BG"
  /\ (~IsBT2020(matrix) /\ ~IsHD(matrix, info) /\ info.height \in {480, 488})
       => primaries = "ST170M"
  /\ (~IsBT2020(matrix) /\ ~IsHD(matrix, info)
        /\ info.height \notin {576, 480, 488})
       => primaries = "BT709"

C13_PrimariesInference ==
  [][(Inner /\ main' = "spawn") =>
       /\ src_primaries = "Unspecified"
            => PrimariesAsClaimed(src_primaries', src_matrix', source_info)
       /\ dst_primaries = "Unspecified"
            => PrimariesAsClaimed(dst_primaries', dst_matrix', distorted_info)]_vars

C13_Witness ==
  /\ main = "spawn"
  /\ src_matrix = "BT2020ConstantLuminance"
  /\ source_info = [width |-> 1279, height |-> 480]
  /\ src_primaries = "BT2020"
  /\ dst_matrix = "ST170M"
  /\ distorted_info = [width |-> 1279, height |-> 488]
  /\ dst_primaries = "ST170M"

(* C14: a stream's resolved matrix, transfer and primaries are a function   *)
(* of its own three values and its own resolution: what the user specified  *)
(* is kept, an Unspecified transfer becomes BT1886, and nothing is left     *)
(* Unspecified.                                                             *)
OwnColorimetry(before, after, info) ==
  /\ before[1] # "Unspecified" => after[1] = before[1]
  /\ before[2] # "Unspecified" => after[2] = before[2]
  /\ before[3] # "Unspecified" => after[3] = before[3]
  /\ before[1] = "Unspecified" => MatrixAsClaimed(after[1], info)
  /\ before[2] = "Unspecified" => after[2] = "BT1886"
  /\ before[3] = "Unspecified" => PrimariesAsClaimed(after[3], after[1], info)
  /\ \A n \in 1..3 : after[n] # "Unspecified"

C14_PerStreamResolution ==
  [][(Inner /\ main' = "spawn") =>
       /\ OwnColorimetry(<< src_matrix, src_transfer, src_primaries >>,
                         << src_matrix', src_transfer', src_primaries' >>,
                         source_info)
       /\ OwnColorimetry(<< dst_matrix, dst_transfer, dst_primaries >>,
                         << dst_matrix', dst_transfer', dst_primaries' >>,
                         distorted_info)]_vars

C14_Witness ==
  /\ main = "spawn"
  /\ source_info = [width |-> 1279, height |-> 576]
  /\ << src_matrix, src_transfer, src_primaries >>
       = << "BT470BG", "BT1886", "BT470BG" >>
  /\ distorted_info = [width |-> 1280, height |-> 480]
  /\ << dst_matrix, dst_transfer, dst_primaries >> = << "YCgCo", "SRGB", "P3DCI" >>

(* C15: a token that parses gives the value of its numeric code or of its   *)
(* alias, whatever the case of its letters; a number above the highest      *)
(* defined code, a reserved code and an unknown name all fail; Unspecified  *)
(* comes only from the code 2 and the alias "unspecified".                  *)
EnumOf(kind) ==
  CASE kind = "matrix" -> MatrixCoefficients
    [] kind = "transfer" -> TransferCharacteristic
    [] kind = "primaries" -> ColorPrimaries

AliasesOf(kind) ==
  CASE kind = "matrix" -> MatrixAliases
    [] kind = "transfer" -> TransferAliases
    [] kind = "primaries" -> PrimariesAliases

HighestCode(kind) ==
  CASE kind = "matrix" -> 14
    [] kind = "transfer" -> 18
    [] kind = "primaries" -> 22

ReservedCodes(kind) ==
  CASE kind = "matrix" -> {3}
    [] kind = "transfer" -> {0, 3}
    [] kind = "primaries" -> {0, 3} \cup (13..21)

Unspecified == << "u", "n", "s", "p", "e", "c", "i", "f", "i", "e", "d" >>

MapsToCodeOrAlias(kind, token, out) ==
  out.ok =>
    \/ /\ IsSome(ParseU8(token))
       /\ ParseU8(token)[1] \in DOMAIN EnumOf(kind)
       /\ out.value = EnumOf(kind)[ParseU8(token)[1]]
    \/ << ToAsciiLowercase(token), out.value >> \in AliasesOf(kind)

AliasesInAnyCase(kind, token, out) ==
  \A a \in AliasesOf(kind) :
    token \in {a[1], Capital(a[1])} => out = Ok(a[2])

UnknownFails(kind, token, out) ==
  /\ (IsSome(ParseU8(token)) /\ ParseU8(token)[1] > HighestCode(kind)) => ~out.ok
  /\ (ParseU8(token) = None
        /\ \A a \in AliasesOf(kind) : a[1] # ToAsciiLowercase(token)) => ~out.ok
  /\ (out.ok /\ out.value = "Unspecified")
       => (ParseU8(token) = Some(2) \/ ToAsciiLowercase(token) = Unspecified)

ReservedFails(kind, token, out) ==
  (IsSome(ParseU8(token)) /\ ParseU8(token)[1] \in ReservedCodes(kind)) => ~out.ok

C15_NeverDefaults ==
  (IsSome(parsed) /\ IsSome(input)) =>
    /\ MapsToCodeOrAlias(parsed[1][1], input[1], parsed[1][2])
    /\ AliasesInAnyCase(parsed[1][1], input[1], parsed[1][2])
    /\ UnknownFails(parsed[1][1], input[1], parsed[1][2])
    /\ ReservedFails(parsed[1][1], input[1], parsed[1][2])

(* What holds of the three parsers: all of the above but for the reserved   *)
(* codes, of which only those the enum has no variant for fail; 0 and 3     *)
(* parse to the enum's Reserved0 and Reserved.                              *)
ReservedVariantOrFails(kind, token, out) ==
  (IsSome(ParseU8(token)) /\ ParseU8(token)[1] \in ReservedCodes(kind)) =>
    IF ParseU8(token)[1] \in DOMAIN EnumOf(kind)
    THEN out.ok /\ out.value \in {"Reserved", "Reserved0"}
    ELSE ~out.ok

ParseMapsOrPanics ==
  (IsSome(parsed) /\ IsSome(input)) =>
    /\ MapsToCodeOrAlias(parsed[1][1], input[1], parsed[1][2])
    /\ AliasesInAnyCase(parsed[1][1], input[1], parsed[1][2])
    /\ UnknownFails(parsed[1][1], input[1], parsed[1][2])
    /\ ReservedVariantOrFails(parsed[1][1], input[1], parsed[1][2])

(* C16: the chart has one point per record, its X coordinate the record's   *)
(* frame index and its Y coordinate the record's score.                     *)
C16_ChartByFrameIndex ==
  (main = "done" /\ IsSome(chart)) =>
    /\ Len(chart[1]) = Cardinality(DOMAIN results)
    /\ \A n \in DOMAIN chart[1] :
         /\ chart[1][n][1] \in DOMAIN results
         /\ chart[1][n][2] = results[chart[1][n][1]]

(* What holds of the chart: the X coordinate of a point is the position of  *)
(* its score in the sequence sorted by frame index, counted from 0; that is *)
(* the frame index only for start_frame 0 and inc 1.                        *)
ChartByPosition ==
  (main = "done" /\ IsSome(chart)) =>
    /\ Len(chart[1]) = Cardinality(DOMAIN results)
    /\ \A i \in DOMAIN results :
         chart[1][RankOf(i)] = << RankOf(i) - 1, results[i] >>
    /\ (failed = {} /\ StartFrame = 0 /\ inc = 1) =>
         \A i \in DOMAIN results : chart[1][i + 1] = << i, results[i] >>

(* C17: a worker whose scoring of frame pair i fails ends there: it sends   *)
(* no record for i and takes no further step; i was handed out once and is  *)
(* never handed out again, so no record for i ever reaches the channel or   *)
(* the map.                                                                 *)
TimesAcquired(i) == Cardinality({n \in DOMAIN acquired : acquired[n] = i})

C17_WorkerFailurePolicy ==
  /\ [](\A i \in failed :
          /\ TimesAcquired(i) = 1
          /\ i \notin Range(sent)
          /\ i \notin DOMAIN results
          /\ \A n \in DOMAIN chan : chan[n][1] # i
          /\ \A w \in Workers : IsSome(held[w]) => held[w][1][1] # i)
  /\ [](Cardinality(failed) = Cardinality({w \in Workers : pc[w] = "panicked"}))
  /\ [][\A w \in Workers :
          (pc[w] = "scoring" /\ held[w][1][2] \in failing /\ pc'[w] # pc[w])
            => /\ pc'[w] = "panicked"
               /\ failed' = failed \cup {held[w][1][1]}
               /\ sent' = sent
               /\ chan' = chan]_vars
  /\ [][\A w \in Workers :
          pc[w] = "panicked"
            => /\ pc'[w] = "panicked"
               /\ held'[w] = None
               /\ lock' # w
               /\ ~StepOf(w)]_vars

C17_Witness ==
  /\ failed = {0}
  /\ pc[1] = "panicked"
  /\ pc[2] = "exited"
  /\ acquired = << 0, 1, 2 >>
  /\ sent = << 1, 2 >>
  /\ main = "done"

(* C18: a worker that builds the YUV frames, computes the score and sends   *)
(* the record does not hold the lock and touches neither the lock nor the   *)
(* cursor; so two workers can be scoring at once, and one can be decoding   *)
(* under the lock while the other is scoring.                               *)
C18_ScoringOutsideLock ==
  /\ [](\A w \in Workers : pc[w] = "scoring" => (lock # w /\ IsSome(held[w])))
  /\ [][\A w \in Workers :
          (pc[w] = "scoring" /\ pc'[w] # pc[w])
            => /\ lock' = lock
               /\ << current_frame', next_frame', src_pos', dst_pos' >>
                    = << current_frame, next_frame, src_pos, dst_pos >>]_vars
  /\ [][sent' # sent => (lock' = lock /\ \E w \in Workers \ {lock} :
                                          pc[w] = "scoring" /\ pc'[w] = "idle")]_vars

(* Both workers are scoring, worker 1 the frame pair 0 and worker 2 the     *)
(* frame pair 1: worker 2 took the lock, skipped nothing, read and released *)
(* while worker 1 was scoring.                                              *)
C18_Witness ==
  /\ frame_threads = 2
  /\ pc[1] = "scoring"
  /\ pc[2] = "scoring"
  /\ held[1] = Some(<< 0, 0, 0 >>)
  /\ held[2] = Some(<< 1, 1, 1 >>)
  /\ lock = 0

(* C19: each record received moves the display average by (score - avg) /   *)
(* min(k, 10), k counting the records received so far with this one; the    *)
(* divisor is at least 1, and through the first 10 records the average is   *)
(* the arithmetic mean of the scores received.                              *)
RECURSIVE SumOf(_)
SumOf(map) ==
  IF DOMAIN map = {} THEN 0
  ELSE LET k == CHOOSE x \in DOMAIN map : TRUE
       IN  map[k] + SumOf([x \in (DOMAIN map) \ {k} |-> map[x]])

C19_RunningAverage ==
  /\ [][received' # received =>
          /\ received' = received + 1
          /\ Min(received', 10) >= 1
          /\ avg'[1] * avg[2] * Min(received', 10)
               = avg'[2] * (avg[1] * Min(received', 10)
                             + Head(chan)[2] * avg[2] - avg[1])]_vars
  /\ [](avg[2] >= 1)
  /\ [](received \in 1..10 => avg[1] * received = avg[2] * SumOf(results))

(* Eleven records, the third of 90 and the others of 10 but the last, of 90 *)
(* again: the mean of the first ten is 18, and the eleventh moves it by     *)
(* (90 - 18) / 10 to 25.2.                                                  *)
C19_Witness ==
  /\ received = 11
  /\ SumOf(results) = 270
  /\ results[2] = 90
  /\ results[10] = 90
  /\ avg = << 126, 5 >>

(* C20: for two streams of equal length whose frame count is known, the     *)
(* length the progress bar is created with is the number of records the run *)
(* makes: when the receive loop has ended the bar's position, one step per  *)
(* record, is its length.                                                   *)
C20_ProgressTotal ==
  (main = "done" /\ IsSome(progress_len) /\ src_len = dst_len /\ failed = {})
    => received = progress_len[1]

(* What holds of the bar: its length is never below the number of records,  *)
(* and it is that number when the run starts at frame 0.                    *)
ProgressTotalIsUpperBound ==
  (main = "done" /\ IsSome(progress_len) /\ src_len = dst_len /\ failed = {})
    => /\ received <= progress_len[1]
       /\ StartFrame = 0 => received = progress_len[1]

(* C21: an acquisition whose skip loop was left because a decoder yielded    *)
(* nothing ends with end-of-stream: the worker leaves its loop, no index is *)
(* handed out and no frame pair is kept.                                    *)
BrokeOutOfSkip(w) == pc[w] = "read" /\ curr_frame[w] < next_local[w]

C21_SkipExhaustion ==
  /\ [](\A w \in Workers :
          BrokeOutOfSkip(w) =>
            (ReadFrame(src_pos, src_len) = None \/ ReadFrame(dst_pos, dst_len) = None))
  /\ [][\A w \in Workers :
          (BrokeOutOfSkip(w) /\ pc'[w] # pc[w])
            => /\ pc'[w] = "exited"
               /\ acquired' = acquired
               /\ held'[w] = None
               /\ lock' = 0]_vars
  /\ [](\A w \in Workers :
          IsSome(held[w]) => /\ held[w][1][2] = held[w][1][1]
                             /\ held[w][1][3] = held[w][1][1]
                             /\ held[w][1][1] < Shorter)

(* The source has one frame, the distorted stream three, the run starts at  *)
(* frame 2: the second skip step finds the source exhausted, the distorted  *)
(* stream not, and the worker ends without a record.                        *)
C21_Witness ==
  /\ src_len = 1
  /\ dst_len = 3
  /\ start_frame = Some(2)
  /\ pc[1] = "exited"
  /\ src_pos = 1
  /\ dst_pos = 3
  /\ acquired = << >>

(* C22: whenever the cursor lock is free and neither decoder is exhausted,  *)
(* current_frame is the number of frames read so far from the source and    *)
(* from the distorted decoder, also after an acquisition that ended at the  *)
(* end-frame bound.                                                         *)
NeitherExhausted == src_pos < src_len /\ dst_pos < dst_len

C22_CurrentFrameMeaning ==
  (LockFree /\ NeitherExhausted) => (current_frame = src_pos /\ current_frame = dst_pos)

(* What the code keeps: the cursor never runs ahead of the decoders, the    *)
(* two decoders are read in lock step while neither is exhausted, and       *)
(* without an end-frame bound the cursor is the number of frames read.      *)
CurrentFrameNotAhead ==
  /\ current_frame <= src_pos \/ src_pos = src_len
  /\ current_frame <= dst_pos \/ dst_pos = dst_len
  /\ NeitherExhausted => src_pos = dst_pos
  /\ (LockFree /\ NeitherExhausted /\ end_frame = None) => current_frame = src_pos
  /\ (LockFree /\ NeitherExhausted /\ (\A w \in Workers : pc[w] # "exited"))
       => current_frame = src_pos

(* C23: a frame pair with index i is read when exactly i frames have been   *)
(* read from the source decoder and exactly i from the distorted decoder,   *)
(* so it is (source frame i, distorted frame i), whatever the increment,    *)
(* the start frame, the number of workers and the interleaving.             *)
C23_LockStep ==
  /\ [][\A w \in Workers :
          (held[w] = None /\ IsSome(held'[w]))
            => /\ src_pos = held'[w][1][1]
               /\ dst_pos = held'[w][1][1]
               /\ held'[w][1][2] = ReadFrame(src_pos, src_len)[1]
               /\ held'[w][1][3] = ReadFrame(dst_pos, dst_len)[1]
               /\ src_pos' = src_pos + 1
               /\ dst_pos' = dst_pos + 1
               /\ acquired' = Append(acquired, src_pos)]_vars
  /\ [][(src_pos' # src_pos \/ dst_pos' # dst_pos)
          => /\ src_pos' = Advance(src_pos, src_len)
             /\ dst_pos' = Advance(dst_pos, dst_len)
             /\ lock # 0]_vars

(* Two workers, increment 2: worker 2 holds the pair (2, 2) after frame 1   *)
(* was decoded and discarded, while worker 1 has delivered the pair 0.      *)
C23_Witness ==
  /\ inc = 2
  /\ frame_threads = 2
  /\ acquired = << 0, 2 >>
  /\ held[2] = Some(<< 2, 2, 2 >>)
  /\ pc[1] = "idle"
  /\ src_pos = 3
  /\ dst_pos = 3

(* C24: end-of-stream is absorbing.  Once a worker has left its loop        *)
(* because an acquisition signalled end-of-stream, every later acquisition  *)
(* signals end-of-stream too: no further index is handed out and no worker  *)
(* receives a frame pair.                                                   *)
EndOfStreamSeen == \E w \in Workers : pc[w] = "exited"

C24_EndOfStreamAbsorbing ==
  [][EndOfStreamSeen
       => /\ acquired' = acquired
          /\ \A w \in Workers :
               /\ IsSome(held'[w]) => held'[w] = held[w]
               /\ (pc[w] = "read" /\ pc'[w] # "read") => pc'[w] = "exited"]_vars

(* Two workers, an end-frame bound inside the streams: worker 1 returned    *)
(* pair 0, then both workers ended at the bound, one after the other, with  *)
(* neither decoder exhausted.                                               *)
C24_Witness ==
  /\ IsSome(end_frame)
  /\ frame_threads = 2
  /\ pc[1] = "exited"
  /\ pc[2] = "exited"
  /\ acquired = << 0 >>
  /\ src_pos < src_len
  /\ dst_pos < dst_len

(* C25: the cursor lock is released on every exit path of an acquisition    *)
(* and is held only by a worker inside an acquisition, so a worker waiting  *)
(* for the lock is never blocked by a worker that is scoring, idle or gone: *)
(* while the process runs and a worker waits, some worker can take a step   *)
(* of an acquisition.                                                       *)
Waiting(w) == pc[w] = "idle"

C25_LockReleased ==
  /\ [](lock # 0 => (lock \in Workers /\ InLock(lock)))
  /\ [](\A w \in Workers : ~InLock(w) => lock # w)
  /\ []((Running /\ \E w \in Workers : Waiting(w))
          => ENABLED (\E w \in Workers : Lock(w) \/ SkipStep(w) \/ Acquire(w)))
  /\ [][\A w \in Workers :
          (pc[w] = "read" /\ pc'[w] # "read") => (lock = w /\ lock' = 0)]_vars

(* Worker 1 has ended at the end-frame bound (neither decoder exhausted)    *)
(* and worker 2 has taken the lock after it.                                *)
C25_Witness ==
  /\ IsSome(end_frame)
  /\ pc[1] = "exited"
  /\ lock = 2
  /\ src_pos < src_len
  /\ dst_pos < dst_len

(* C26: with an end-frame bound E configured, the number of frames read     *)
(* from each decoder never exceeds E, whatever the number of workers.       *)
C26_ReadsWithinEnd ==
  IsSome(end_frame) => (src_pos <= end_frame[1] /\ dst_pos <= end_frame[1])

(* What the code keeps: a single worker with a window of at least one      *)
(* frame stays within E.                                                    *)
ReadsWithinEndOneWorker ==
  (IsSome(end_frame) /\ frames_to_compare # Some(0) /\ frame_threads = 1)
    => (src_pos <= end_frame[1] /\ dst_pos <= end_frame[1])

(* C27: computing the progress-bar total involves no unsigned underflow:   *)
(* frame_count - start_frame is evaluated (the bar got a length, or the     *)
(* subtraction panicked) only when start_frame <= frame_count.              *)
SubtractionEvaluated == IsSome(progress_len) \/ error = "overflow"

C27_NoUnderflow ==
  SubtractionEvaluated => (IsSome(FrameCount) /\ StartFrame <= FrameCount[1])

(* C28: the frame pairs in memory (acquired and not yet scored) are those  *)
(* held by scoring workers, at most one per worker and so at most           *)
(* frame_threads; frame_threads is at least 1 and that many workers are     *)
(* started.                                                                 *)
Holding == {w \in Workers : IsSome(held[w])}

C28_BoundedInFlight ==
  /\ frame_threads >= 1
  /\ Cardinality(Holding) <= frame_threads
  /\ Holding \subseteq 1..frame_threads
  /\ \A w \in Workers : IsSome(held[w]) <=> pc[w] = "scoring"
  /\ Len(acquired) - Len(sent) - Cardinality(failed) = Cardinality(Holding)
  /\ spawned <= frame_threads
  /\ main \in {"progress", "recv", "done"} => spawned = frame_threads

(* Both workers hold a pair at once (pairs 1 and 2 of a run from frame 1),  *)
(* which is the bound for frame_threads = 2.                                *)
C28_Witness ==
  /\ frame_threads = 2
  /\ held[1] = Some(<< 1, 1, 1 >>)
  /\ held[2] = Some(<< 2, 2, 2 >>)
  /\ Cardinality(Holding) = frame_threads

(* C29: read_video_frame of the script-based decoder returns the frame at  *)
(* position cur_frame and adds exactly one to cur_frame when it succeeds,   *)
(* and leaves cur_frame as it was when it returns an error, so cur_frame is *)
(* always the number of successful reads.                                   *)
Called == read_result' # read_result \/ cur_frame' # cur_frame

C29_CurFrameCountsReads ==
  /\ [](cur_frame = reads_ok)
  /\ [][Called =>
          IF read_result'[1].kind = "Ok"
          THEN /\ read_result'[1].frame = cur_frame
               /\ cur_frame < clip.num_frames
               /\ cur_frame' = cur_frame + 1
          ELSE cur_frame' = cur_frame]_vars

(* Two frames of a three-frame clip were read, then the script failed to    *)
(* produce the third: cur_frame stays 2.                                    *)
C29_Witness ==
  /\ clip.num_frames = 3
  /\ read_result = Some(Err("get_frame"))
  /\ reads_ok = 2
  /\ cur_frame = 2

(* Under fair scheduling the coordinating thread ends: with the summary, or *)
(* with one of its three panics.                                            *)
EventuallyStops == <>(main \in {"done", "panicked"})

StopsOnlyDoneOrPanicked ==
  ~ENABLED Next => (main = "done" \/ main = "panicked")

====
